---------------------------- MODULE Spec2Model ----------------------------
(***************************************************************************)
(* Model of holoviews/operation/downsampling.py: the LTTB bucket selector  *)
(* (_argmax_area, _lttb), the stride selector (_nth_point), the algorithm  *)
(* registry and the orchestrating operation downsample1d._process.         *)
(*                                                                         *)
(* Floating point.  block_size and the values np.arange produces are IEEE  *)
(* binary64 numbers.  A binary64 value v with 1 <= v < 32 is a multiple of *)
(* 2^-52, and is held here in fixed point as a pair <<A, B>> that stands   *)
(* for (A * Limb + B) / 2^52 with Limb = 2^26 and 0 <= B < Limb, so that   *)
(* every intermediate fits the 32-bit integers of the model checker.       *)
(* Every operation is the exact result rounded to the nearest binary64,    *)
(* ties to even, as the hardware does.                                     *)
(***************************************************************************)
EXTENDS Integers, Sequences, FiniteSets

(* ------------------------- binary64 arithmetic ------------------------- *)

Limb == 2^26

\* floor(log2(k)) for the integer part k of a value in [1, 32)
Binade(k) == CHOOSE e \in 0..4 : 2^e <= k /\ k < 2^(e + 1)

\* The exact value (A*Limb + B + num/den) / 2^52, 0 <= num < den, rounded to
\* the nearest binary64, ties to even.  A value in [2^e, 2^(e+1)) has 52
\* fraction bits, so its grid is 2^e units of 2^-52.  Zero is exact.
RoundToDouble(A, B, num, den) ==
    IF A < Limb THEN <<A, B>>
    ELSE LET G     == 2^Binade(A \div Limb)
             low   == B % G
             base  == B - low
             twice == 2 * (low * den + num)
             up    == \/ twice > G * den
                      \/ twice = G * den /\ (base \div G) % 2 = 1
         IN  IF ~up THEN <<A, base>>
             ELSE IF base + G = Limb THEN <<A + 1, 0>>
             ELSE <<A, base + G>>

\* p / q for integers p >= q >= 1 (Python's true division of two ints)
FloatDiv(p, q) ==
    LET n1 == p * Limb
        r1 == n1 % q
        n2 == r1 * Limb
    IN  RoundToDouble(n1 \div q, n2 \div q, n2 % q, q)

\* 1.0 + v
FloatAddOne(v) == RoundToDouble(v[1] + Limb, v[2], 0, 1)

\* v - 1.0, v >= 2
FloatSubOne(v) == RoundToDouble(v[1] - Limb, v[2], 0, 1)

\* i * v for a small integer i >= 0
FloatMulInt(i, v) ==
    LET lowp == i * v[2]
    IN  RoundToDouble(i * v[1] + lowp \div Limb, lowp % Limb, 0, 1)

\* .astype(np.int64) of a non-negative value: truncation
FloatTrunc(v) == v[1] \div Limb


(* ------------------------------- helpers ------------------------------- *)

\* Python's 0-based indexing and half-open slicing of an array held as a
\* sequence; a slice is clamped to the array, as numpy clamps it.
At(s, k) == s[k + 1]

Clamp(k, len) == IF k < 0 THEN 0 ELSE IF k > len THEN len ELSE k

Slice(s, lo, hi) ==
    LET l == Clamp(lo, Len(s))
        h == Clamp(hi, Len(s))
    IN  IF h <= l THEN <<>> ELSE [k \in 1..(h - l) |-> s[l + k]]

RECURSIVE SumSeq(_)
SumSeq(s) == IF s = <<>> THEN 0 ELSE Head(s) + SumSeq(Tail(s))

Abs(v) == IF v < 0 THEN 0 - v ELSE v

RECURSIVE Gcd(_, _)
Gcd(u, v) == IF v = 0 THEN u ELSE Gcd(v, u % v)

IsPowerOfTwo(k) == \E e \in 0..5 : k = 2^e

StrictlyIncreasing(s) == \A k \in 1..(Len(s) - 1) : s[k] < s[k + 1]

(* --------------------------- _lttb, lines 84-88 ------------------------ *)

\* block_size = (y.shape[0] - 2) / (n_out - 2), n > n_out >= 3
block_size(n, n_out) == FloatDiv(n - 2, n_out - 2)

\* Element i of np.arange(start=1, stop=n, step=bs).  numpy stores start and
\* start + step, takes delta = buffer[1] - buffer[0] and fills
\* buffer[i] = start + i*delta; the compiled (njit) arange fills
\* arr[i] = start + i*step.
ArangeValue(bs, i, jit) ==
    IF jit THEN FloatAddOne(FloatMulInt(i, bs))
    ELSE IF i = 0 THEN <<Limb, 0>>
    ELSE IF i = 1 THEN FloatAddOne(bs)
    ELSE FloatAddOne(FloatMulInt(i, FloatSubOne(FloatAddOne(bs))))

\* len(arange) = ceil((stop - start) / step).  The quotient is a binary64
\* division by bs; bs lies in [A/Limb, (A+1)/Limb], which bounds the
\* quotient, and every length between the two ceilings is admitted.
CeilDiv(num, den) == num \div den + (IF num % den = 0 THEN 0 ELSE 1)

ArangeLengths(n, bs) ==
    LET num == (n - 1) * Limb
    IN  CeilDiv(num, bs[1] + 1) .. CeilDiv(num, bs[1])

\* np.arange(...).astype(np.int64) for a table of the given length
OffsetTable(bs, len, jit) ==
    [k \in 1..len |-> FloatTrunc(ArangeValue(bs, k - 1, jit))]

\* Lines 84-88 as a whole: the possible outcomes [err, line, offset].
\* n_out = 2 divides by zero at line 84.  n = 2 gives a step of 0.0 and
\* arange divides stop - start by it.  A negative step, or stop = start,
\* gives the empty table.
OffsetOutcomes(n, n_out, jit) ==
    LET p == n - 2
        q == n_out - 2
        fail(l) == {[err |-> "ZeroDivisionError", line |-> l, offset |-> <<>>]}
        ok(t) == [err |-> "none", line |-> 0, offset |-> t]
    IN  CASE q = 0 -> fail(84)
          [] q # 0 /\ p = 0 -> fail(88)
          [] q # 0 /\ p # 0 /\ (n - 1 <= 0 \/ p * q < 0) -> {ok(<<>>)}
          [] q >= 1 /\ p >= q /\ n - 1 > 0 ->
               LET bs == block_size(n, n_out)
               IN  {ok(OffsetTable(bs, len, jit)) : len \in ArangeLengths(n, bs)}

(* ----------------------------- _argmax_area ---------------------------- *)

\* The area formula of lines 65-69 for one candidate, times the length
\* nextLen of the next bucket (avg_next = nextSum / nextLen), so that it is
\* an integer:
\*   | x*(prev_y - avg_y) + y*(avg_x - prev_x) + (prev_x*avg_y - avg_x*prev_y) |
ScaledArea(prev_x, prev_y, sumx, sumy, nextLen, cx, cy) ==
    Abs(cx * (nextLen * prev_y - sumy) + cy * (sumx - nextLen * prev_x)
        + (prev_x * sumy - sumx * prev_y))

\* The mean sum / len is a binary64 number without rounding
MeanExact(sum, len) == IsPowerOfTwo(len \div Gcd(len, Abs(sum) % len))

\* The indexes .argmax() can return, relative to the bucket.  Areas that
\* differ exactly differ by far more than the rounding error, so the result
\* is an exact maximum.  With both means exact every operation is exact and
\* argmax returns the first maximum.  Otherwise rounding may order two
\* candidates of equal exact area either way, unless prev_y = avg_next_y
\* (the x term vanishes) and they have the same y, which gives them the
\* same computed area: each remaining candidate is admitted.
\* An empty next bucket has mean nan: every area is nan and argmax is 0.
ArgmaxArea(prev_x, prev_y, sumx, sumy, nextLen, x_bucket, y_bucket) ==
    LET area(c) == ScaledArea(prev_x, prev_y, sumx, sumy, nextLen,
                              x_bucket[c], y_bucket[c])
        cand    == 1..Len(x_bucket)
        maxima  == {c \in cand : \A d \in cand : area(c) >= area(d)}
        first   == CHOOSE c \in maxima : \A d \in maxima : c <= d
        same(d, c) == nextLen * prev_y = sumy /\ y_bucket[d] = y_bucket[c]
    IN  IF nextLen = 0 THEN {0}
        ELSE IF MeanExact(sumx, nextLen) /\ MeanExact(sumy, nextLen)
        THEN {first - 1}
        ELSE {c - 1 : c \in {c \in maxima :
                               \A d \in maxima : d < c => ~same(d, c)}}


(* ------------------------------- inputs -------------------------------- *)

\* Longest series handed to downsample1d._process, and the largest width
MaxLen == 5
MaxWidth == 5
\* Longest series handed to _lttb directly
MaxN == 6

\* y values of a numeric series; a boolean series holds FALSE and TRUE
YValues == {0, 1, 2}
ProcessYValues == {0, 1}

\* x values: regularly sampled (x[i] = i), or with growing gaps
XShapes == {"regular", "growing"}
XValue(shape, i) == IF shape = "regular" THEN i ELSE (i * (i + 1)) \div 2

\* x_range: None (held as the empty tuple) or a pair (lo, hi)
XRanges == {<<>>, <<1, 4>>, <<0, 3>>, <<2, 9>>}

Row(x, y) == [x |-> x, y |-> y]

SeriesOver(vals, lens) ==
    UNION {{[k \in 1..n |-> Row(k - 1, f[k])] : f \in [1..n -> vals]} : n \in lens}

\* np.empty leaves the slots of sampled_x unwritten
Uninit == 0 - 1

(* -------------------------------- state -------------------------------- *)

VARIABLES
    caller,      \* "_process": downsample1d._process runs; "_lttb": _lttb is called directly
    data,        \* the element handed to _process: a sequence of rows [x, y]
    ydtype,      \* "bool" when the y values are np.bool_, else "int"
    x_range,     \* self.p.x_range
    width,       \* self.p.width
    algorithm,   \* self.p.algorithm
    jit,         \* TRUE when numba is installed and _lttb is compiled
    pc,          \* the statement about to run
    element,     \* _process's local element
    xs, ys,      \* the arrays handed to the selection algorithm
    n_out,       \* its third argument
    offset,      \* _lttb's offset table
    sampled_x,   \* _lttb's output array
    a, i,        \* _lttb's previous selection and loop index
    samples,     \* the algorithm's return value
    result,      \* the rows _process returns
    err,         \* the exception raised, "none" if none
    errLine,     \* the source line that raised it
    invoked,     \* history: a selection algorithm was called
    touched      \* history: _lttb has indexed or written an array

inputs == <<caller, data, ydtype, x_range, width, algorithm, jit>>
args   == <<xs, ys, n_out>>
locals == <<offset, sampled_x, a, i>>
vars   == <<caller, data, ydtype, x_range, width, algorithm, jit, pc, element,
           xs, ys, n_out, offset, sampled_x, a, i, samples, result, err,
           errLine, invoked, touched>>

Fresh ==
    /\ offset = <<>> /\ sampled_x = <<>> /\ a = 0 /\ i = 0
    /\ samples = <<>> /\ result = <<>>
    /\ err = "none" /\ errLine = 0 /\ touched = FALSE

\* A call of downsample1d()._process(element)
Init ==
    /\ caller = "_process"
    /\ \/ ydtype = "int"  /\ data \in SeriesOver(ProcessYValues, 0..MaxLen)
       \/ ydtype = "bool" /\ data \in SeriesOver(BOOLEAN, 0..MaxLen)
    /\ x_range \in XRanges
    /\ width \in 0..MaxWidth
    /\ algorithm \in {"lttb", "nth"}
    /\ jit \in BOOLEAN
    /\ pc = "process"
    /\ element = data
    /\ xs = <<>> /\ ys = <<>> /\ n_out = 0
    /\ invoked = FALSE
    /\ Fresh

\* A direct call _lttb(x, y, n_out) with 3 <= n_out < len(x)
InitLttb ==
    /\ caller = "_lttb"
    /\ data = <<>> /\ ydtype = "int" /\ x_range = <<>>
    /\ algorithm = "lttb"
    /\ jit \in BOOLEAN
    /\ pc = "lttb_offset"
    /\ element = <<>>
    /\ \E n \in 4..MaxN, shape \in XShapes :
          /\ xs = [k \in 1..n |-> XValue(shape, k - 1)]
          /\ ys \in [1..n -> YValues]
          /\ n_out \in 3..(n - 1)
    /\ width = n_out
    /\ invoked = TRUE
    /\ Fresh


(* ------------------------ downsample1d._process ------------------------ *)

\* element[slice(lo, hi)]: the rows whose x lies in the half-open [lo, hi)
RangeFilter(rows, lo, hi) ==
    LET keep(r) == lo <= r.x /\ r.x < hi
    IN  SelectSeq(rows, keep)

\* element.iloc[samples]: the rows at the given 0-based positions
Iloc(rows, idx) == [k \in 1..Len(idx) |-> At(rows, idx[k])]

\* Line 161 with "<" written for "<=": data of exactly width rows would be
\* handed to the algorithm
FitsWidthStrict(len, w) == len < w

\* Line 161: len(element) <= self.p.width
FitsWidth(len, w) == len <= w

\* Line 165: ys.astype(np.int8) of a boolean
AsInt8(b) == IF b THEN 1 ELSE 0

\* Lines 141-144 and 166: the registry lookup, as the statement entered
Algorithms(name) == IF name = "lttb" THEN "lttb_offset" ELSE "nth"

\* Lines 159-160
ApplyXRange ==
    /\ pc = "process"
    /\ element' = IF x_range # <<>>
                  THEN RangeFilter(element, x_range[1], x_range[2])
                  ELSE element
    /\ pc' = "len"
    /\ UNCHANGED <<inputs, args, locals, samples, result, err, errLine,
                   invoked, touched>>

\* Lines 159-162 with the two statements in the other order: the length of
\* the unfiltered data is compared with width, and the unfiltered data is
\* returned when it fits
CheckLengthBeforeRange ==
    /\ pc = "len"
    /\ IF FitsWidth(Len(data), width)
       THEN result' = data /\ pc' = "done"
       ELSE result' = result /\ pc' = "extract"
    /\ UNCHANGED <<inputs, element, args, locals, samples, err, errLine,
                   invoked, touched>>

\* Lines 161-162
CheckLength ==
    /\ pc = "len"
    /\ IF FitsWidth(Len(element), width)
       THEN result' = element /\ pc' = "done"
       ELSE result' = result /\ pc' = "extract"
    /\ UNCHANGED <<inputs, element, args, locals, samples, err, errLine,
                   invoked, touched>>

\* Lines 163-165
Extract ==
    /\ pc = "extract"
    /\ xs' = [k \in 1..Len(element) |-> element[k].x]
    /\ ys' = [k \in 1..Len(element) |->
                IF ydtype = "bool" THEN AsInt8(element[k].y) ELSE element[k].y]
    /\ pc' = "dispatch"
    /\ UNCHANGED <<inputs, element, n_out, locals, samples, result, err,
                   errLine, invoked, touched>>

\* Lines 166-167: the call downsample(xs, ys, self.p.width)
Dispatch ==
    /\ pc = "dispatch"
    /\ n_out' = width
    /\ invoked' = TRUE
    /\ pc' = Algorithms(algorithm)
    /\ UNCHANGED <<inputs, element, xs, ys, locals, samples, result, err,
                   errLine, touched>>

\* Line 168
Select ==
    /\ pc = "iloc"
    /\ result' = Iloc(element, samples)
    /\ pc' = "done"
    /\ UNCHANGED <<inputs, element, args, locals, samples, err, errLine,
                   invoked, touched>>

(* ------------------------------ _nth_point ----------------------------- *)

\* The names line 137 can resolve: the parameters of _nth_point and the
\* names the module binds (lines 31-41, 44, 72, 126, 141, 146)
NthScope ==
    {"x", "y", "n_out", "math", "np", "param", "njit", "ResamplingOperation1D",
     "_argmax_area", "_lttb", "_nth_point", "_ALGORITHMS", "downsample1d"}

\* Line 137: n_samples = len(s) reads a name that nothing binds
NthPoint ==
    /\ pc = "nth"
    /\ "s" \notin NthScope
    /\ err' = "NameError"
    /\ errLine' = 137
    /\ pc' = "done"
    /\ UNCHANGED <<inputs, element, args, locals, samples, result, invoked,
                   touched>>


(* -------------------------------- _lttb -------------------------------- *)

\* An index outside its array.  numpy raises IndexError.  Compiled code does
\* not check bounds: the access is undefined, and `silent` are the outcomes
\* in which execution goes on.
OutOfBounds(line, silent, compiled) ==
    IF compiled
    THEN {[err |-> "Crash", line |-> line]} \cup silent
    ELSE {[err |-> "IndexError", line |-> line]}

\* Lines 91-93: sampled_x = np.empty(n_out); sampled_x[0] = 0;
\* sampled_x[-1] = x.shape[0] - 1.  The outcomes [err, line, sampled_x].
InitOutputOutcomes(n, nout, compiled) ==
    LET done(arr) == [err |-> "none", line |-> 0, sampled_x |-> arr]
    IN  IF nout = 0
        THEN {[err |-> o.err, line |-> o.line, sampled_x |-> <<>>] :
                 o \in OutOfBounds(92, {[err |-> "none", line |-> 0]}, compiled)}
        ELSE {done([k \in 1..nout |->
                      IF k = nout THEN n - 1 ELSE IF k = 1 THEN 0 ELSE Uninit])}

\* Lines 97-107 without "+ offset[i]": the argmax relative to its bucket
BucketPickNoOffset(arg, lo) == arg

\* Lines 97-107: the argmax within the bucket, "+ offset[i]"
BucketPick(arg, lo) == arg + lo

\* One pass of the loop of lines 96-108 with loop index it, previous
\* selection prev and output array out: the outcomes [err, line, a, sampled_x]
BucketOutcomes(x, y, off, prev, it, out, compiled) ==
    LET stay(e, l) == [err |-> e, line |-> l, a |-> prev, sampled_x |-> out]
    IN  IF it + 2 >= Len(off)
        THEN {stay(o.err, o.line) : o \in OutOfBounds(101, {}, compiled)}
        ELSE LET lo == At(off, it)
                 hi == At(off, it + 1)
                 nx == Slice(x, hi, At(off, it + 2))
                 ny == Slice(y, hi, At(off, it + 2))
                 xb == Slice(x, lo, hi)
                 yb == Slice(y, lo, hi)
             IN  IF xb = <<>> THEN {stay("ValueError", 65)}
                 ELSE {[err |-> "none", line |-> 0, a |-> BucketPick(arg, lo),
                        sampled_x |-> [out EXCEPT ![it + 2] = BucketPick(arg, lo)]] :
                          arg \in ArgmaxArea(At(x, prev), At(y, prev), SumSeq(nx),
                                             SumSeq(ny), Len(nx), xb, yb)}

\* Lines 112-122: the last bucket, whose next average is the last point
LastBucketOutcomes(x, y, off, prev, out, compiled) ==
    LET stay(e, l) == [err |-> e, line |-> l, a |-> prev, sampled_x |-> out]
    IN  IF Len(off) < 2 \/ Len(out) < 2
        THEN {stay(o.err, o.line) :
                 o \in OutOfBounds(118, {[err |-> "ValueError", line |-> 65],
                                         [err |-> "none", line |-> 0]}, compiled)}
        ELSE LET lo == off[Len(off) - 1]
                 hi == off[Len(off)]
                 xb == Slice(x, lo, hi)
                 yb == Slice(y, lo, hi)
             IN  IF xb = <<>> THEN {stay("ValueError", 65)}
                 ELSE {[err |-> "none", line |-> 0, a |-> prev,
                        sampled_x |-> [out EXCEPT ![Len(out) - 1] = BucketPick(arg, lo)]] :
                          arg \in ArgmaxArea(At(x, prev), At(y, prev), x[Len(x)],
                                             y[Len(y)], 1, xb, yb)}

\* Lines 84-88
LttbOffsets ==
    /\ pc = "lttb_offset"
    /\ \E o \in OffsetOutcomes(Len(ys), n_out, jit) :
          /\ offset' = o.offset
          /\ err' = o.err
          /\ errLine' = o.line
          /\ pc' = IF o.err = "none" THEN "lttb_init" ELSE "done"
    /\ UNCHANGED <<inputs, element, args, sampled_x, a, i, samples, result,
                   invoked, touched>>

\* Lines 91-95
LttbInitOutput ==
    /\ pc = "lttb_init"
    /\ \E o \in InitOutputOutcomes(Len(xs), n_out, jit) :
          /\ sampled_x' = o.sampled_x
          /\ err' = o.err
          /\ errLine' = o.line
          /\ pc' = IF o.err = "none" THEN "lttb_loop" ELSE "done"
    /\ a' = 0
    /\ i' = 0
    /\ touched' = TRUE
    /\ UNCHANGED <<inputs, element, args, offset, samples, result, invoked>>

\* Lines 96-108, one iteration
LttbBucket ==
    /\ pc = "lttb_loop"
    /\ i < n_out - 3
    /\ \E o \in BucketOutcomes(xs, ys, offset, a, i, sampled_x, jit) :
          /\ a' = o.a
          /\ sampled_x' = o.sampled_x
          /\ err' = o.err
          /\ errLine' = o.line
          /\ pc' = IF o.err = "none" THEN "lttb_loop" ELSE "done"
    /\ i' = i + 1
    /\ UNCHANGED <<inputs, element, args, offset, samples, result, invoked,
                   touched>>

\* Lines 110-122
LttbLastBucket ==
    /\ pc = "lttb_loop"
    /\ i >= n_out - 3
    /\ \E o \in LastBucketOutcomes(xs, ys, offset, a, sampled_x, jit) :
          /\ sampled_x' = o.sampled_x
          /\ err' = o.err
          /\ errLine' = o.line
          /\ pc' = IF o.err = "none" THEN "lttb_return" ELSE "done"
    /\ UNCHANGED <<inputs, element, args, offset, a, i, samples, result,
                   invoked, touched>>

\* Line 123
LttbReturn ==
    /\ pc = "lttb_return"
    /\ samples' = sampled_x
    /\ pc' = IF caller = "_process" THEN "iloc" ELSE "done"
    /\ UNCHANGED <<inputs, element, args, locals, result, err, errLine,
                   invoked, touched>>

(* ---------------------------- specifications --------------------------- *)

NextLttb ==
    \/ LttbOffsets
    \/ LttbInitOutput
    \/ LttbBucket
    \/ LttbLastBucket
    \/ LttbReturn

Next ==
    \/ ApplyXRange
    \/ CheckLength
    \/ Extract
    \/ Dispatch
    \/ NthPoint
    \/ NextLttb
    \/ Select

\* downsample1d._process on every element, x_range, width, algorithm and build
Spec == Init /\ [][Next]_vars

\* _lttb on every series and output count with 3 <= n_out < n
SpecLttb == InitLttb /\ [][NextLttb]_vars


(* -------------------------------- claims ------------------------------- *)

Done == pc = "done"

\* The offset table has been built (lines 84-88 have run without raising)
OffsetBuilt == pc \in {"lttb_init", "lttb_loop", "lttb_return", "iloc"} \/ (Done /\ touched)

\* _lttb was given 3 <= n_out < n
ValidLttbCall == algorithm = "lttb" /\ 3 <= n_out /\ n_out < Len(xs)

XsOf(rows) == [k \in 1..Len(rows) |-> rows[k].x]

\* The data after the x_range filter
Filtered ==
    IF x_range # <<>> THEN RangeFilter(data, x_range[1], x_range[2]) ELSE data

\* C1: for every series of length n and every n_out with 3 <= n_out < n,
\* _lttb(x, y, n_out) returns (it does not raise) a sequence of exactly
\* n_out indexes that is strictly increasing, starts with 0 and ends with
\* n - 1.
C1_LttbSelection ==
    (Done /\ caller = "_lttb" /\ ValidLttbCall) =>
        /\ err = "none"
        /\ Len(samples) = n_out
        /\ StrictlyIncreasing(samples)
        /\ samples[1] = 0
        /\ samples[Len(samples)] = Len(xs) - 1

\* C1 witness: a direct call with four output points has returned, and its
\* first interior slot holds an index past the start of the first bucket
C1_Witness ==
    /\ Done /\ caller = "_lttb" /\ err = "none"
    /\ Len(xs) = 6 /\ n_out = 4
    /\ Len(samples) = 4 /\ samples[2] = 2 /\ samples[3] > 2

\* The stride selection the claim C2 describes
StrideIndices(n, nout) ==
    LET stride == IF CeilDiv(n, nout) < 1 THEN 1 ELSE CeilDiv(n, nout)
    IN  [k \in 1..CeilDiv(n, stride) |-> (k - 1) * stride]

\* C2: with algorithm 'nth', a series of length n longer than width and
\* n_out = width >= 1, the stride selector returns the indexes 0, stride,
\* 2*stride, ... below n with stride = max(1, ceil(n / n_out)), and
\* _process returns the rows at these indexes.
C2_NthStride ==
    (Done /\ caller = "_process" /\ algorithm = "nth" /\ invoked /\ width >= 1) =>
        /\ err = "none"
        /\ samples = StrideIndices(Len(xs), n_out)
        /\ result = Iloc(element, samples)

\* C3: with no x_range and data of length at most width, _process returns
\* the data unchanged and never calls a selection algorithm, whatever the
\* algorithm and the dtype of y.
C3_NoOpWhenSmall ==
    (caller = "_process" /\ x_range = <<>> /\ Len(data) <= width) =>
        /\ ~invoked
        /\ pc \in {"process", "len", "done"}
        /\ Done => (err = "none" /\ result = data)

\* C3 witness: a boolean series of length 5 = width was returned as it was
\* under algorithm 'nth'
C3_Witness ==
    /\ Done /\ caller = "_process" /\ x_range = <<>>
    /\ ydtype = "bool" /\ algorithm = "nth"
    /\ Len(data) = 5 /\ width = 5
    /\ result = data /\ ~invoked

\* C4: when x_range is given, the filter has been applied by the time the
\* length is compared with width: the element tested, the arrays handed to
\* the algorithm and the rows the returned indexes select from are those of
\* the filtered data; the algorithm runs exactly when the filtered data is
\* longer than width, and otherwise the filtered data is returned.
C4_RangeBeforeLength ==
    (caller = "_process" /\ x_range # <<>>) =>
        /\ pc # "process" => element = Filtered
        /\ invoked => (xs = XsOf(Filtered) /\ Len(ys) = Len(Filtered))
        /\ (Done /\ invoked /\ err = "none") => result = Iloc(Filtered, samples)
        /\ Len(Filtered) <= width => ~invoked
        /\ Done => IF Len(Filtered) <= width
                   THEN result = Filtered /\ err = "none"
                   ELSE invoked

\* C4 witness: data of length 5 > width = 3 whose part in [1, 4) has length
\* 3 was returned as that part, without any algorithm being run
C4_Witness ==
    /\ Done /\ caller = "_process" /\ x_range = <<1, 4>>
    /\ Len(data) = 5 /\ width = 3
    /\ Len(result) = 3 /\ result = RangeFilter(data, 1, 4)
    /\ ~invoked

\* C5: whenever _process calls a selection algorithm on a series of length
\* n with n_out = width, 2 <= n_out <= n.
C5_AlgorithmPrecondition ==
    (caller = "_process" /\ invoked) => (2 <= n_out /\ n_out <= Len(xs))

\* C6: 'lttb' with width in {0, 1, 2} on a series longer than width fails,
\* the failure is raised before _lttb indexes or writes any array, and it is
\* not an index error.
C6_LttbSmallWidthRejected ==
    (Done /\ caller = "_process" /\ algorithm = "lttb" /\ width \in 0..2
          /\ Len(element) > width) =>
        /\ err # "none"
        /\ err # "IndexError"
        /\ ~touched

\* The series is zero everywhere except at the interior 0-based index k
SpikeAt(y, k) ==
    /\ 1 <= k /\ k <= Len(y) - 2
    /\ \A j \in 0..(Len(y) - 1) : (At(y, j) = 0) <=> (j # k)

\* C7: for strictly increasing x and y zero except at one interior index k,
\* 'lttb' with 3 <= n_out < n returns a selection that contains k.
C7_SpikeSelected ==
    (Done /\ ValidLttbCall /\ StrictlyIncreasing(xs)) =>
        \A k \in 1..(Len(ys) - 2) :
            SpikeAt(ys, k) =>
                (err = "none" /\ \E j \in 1..Len(samples) : samples[j] = k)

\* C7, as far as it holds: the same when the offset table ends at n - 1
C7_SpikeSelectedWhenCovered ==
    (OffsetBuilt /\ ValidLttbCall /\ At(offset, n_out - 2) = Len(ys) - 1) =>
        C7_SpikeSelected

\* C8: when y is boolean and the series is longer than width, _process
\* runs the algorithm on the encoding false -> 0, true -> 1 without
\* failing, and returns rows of the uncast element, whose y values are
\* still booleans.
C8_BooleanInput ==
    (Done /\ caller = "_process" /\ ydtype = "bool" /\ Len(element) > width) =>
        /\ err = "none"
        /\ invoked
        /\ ys = [k \in 1..Len(element) |-> AsInt8(element[k].y)]
        /\ result = Iloc(element, samples)
        /\ \A k \in 1..Len(result) : result[k].y \in BOOLEAN

\* C8, as far as it holds: the same with 'lttb' and width >= 3
C8_BooleanInputLttb ==
    (algorithm = "lttb" /\ width >= 3) => C8_BooleanInput

\* C9: for 3 <= n_out < n the offset table has n_out - 1 entries and
\* offset[i] = floor(1 + i * (n - 2) / (n_out - 2)) for every i, so
\* offset[0] = 1 and offset[n_out - 2] = n - 1.
C9_OffsetFormula ==
    (OffsetBuilt /\ ValidLttbCall) =>
        /\ Len(offset) = n_out - 1
        /\ \A k \in 0..(n_out - 2) :
              At(offset, k) = 1 + (k * (Len(ys) - 2)) \div (n_out - 2)
        /\ At(offset, 0) = 1
        /\ At(offset, n_out - 2) = Len(ys) - 1

\* C9, as far as it holds: n_out - 1 entries, offset[0] = 1, and offset[i]
\* is floor(1 + i * (n - 2) / (n_out - 2)), or one less than it where
\* 1 + i * (n - 2) / (n_out - 2) is an integer
C9_OffsetUpToDrift ==
    (OffsetBuilt /\ ValidLttbCall) =>
        /\ Len(offset) = n_out - 1
        /\ At(offset, 0) = 1
        /\ \A k \in 0..(n_out - 2) :
              LET num   == k * (Len(ys) - 2)
                  exact == 1 + num \div (n_out - 2)
              IN  \/ At(offset, k) = exact
                  \/ num % (n_out - 2) = 0 /\ At(offset, k) = exact - 1

\* Bucket j of the offset table: the indexes offset[j] .. offset[j+1] - 1
Bucket(j) == At(offset, j) .. (At(offset, j + 1) - 1)

\* C10: for 3 <= n_out < n the n_out - 2 buckets are non-empty, pairwise
\* disjoint and cover exactly 1 .. n-2, and the index in output slot j + 1
\* lies in bucket j.
C10_BucketsPartition ==
    (OffsetBuilt /\ ValidLttbCall) =>
        /\ Len(offset) = n_out - 1
        /\ \A j \in 0..(n_out - 3) : Bucket(j) # {}
        /\ \A j, k \in 0..(n_out - 3) : j # k => Bucket(j) \cap Bucket(k) = {}
        /\ UNION {Bucket(j) : j \in 0..(n_out - 3)} = 1..(Len(xs) - 2)
        /\ (Done /\ err = "none") =>
              \A j \in 0..(n_out - 3) : At(samples, j + 1) \in Bucket(j)

\* C10, as far as it holds: the same but for the cover: the buckets lie
\* within 1 .. n-2 and may leave out n - 2
C10_BucketsDisjointInside ==
    (OffsetBuilt /\ ValidLttbCall) =>
        /\ Len(offset) = n_out - 1
        /\ \A j \in 0..(n_out - 3) : Bucket(j) # {}
        /\ \A j, k \in 0..(n_out - 3) : j # k => Bucket(j) \cap Bucket(k) = {}
        /\ UNION {Bucket(j) : j \in 0..(n_out - 3)} \in
              {1..(Len(xs) - 2), 1..(Len(xs) - 3)}
        /\ (Done /\ err = "none") =>
              \A j \in 0..(n_out - 3) : At(samples, j + 1) \in Bucket(j)

=============================================================================
